---- MODULE Spec2Model ----
(***************************************************************************)
(* tgc-dl: the download workflow of src/tgc_dl (main.py, download.py,      *)
(* types.py) as a state machine.                                           *)
(*                                                                         *)
(* One run is main() iterating over course URLs, download() iterating over *)
(* the lectures of a course, and download_lecture() driving one of the two *)
(* strategies (direct ffmpeg merge, yt-dlp fetch followed by a merge).     *)
(* download_lecture() is also a public function: a run may start in it     *)
(* directly, with any strategy and container format.                       *)
(*                                                                         *)
(* The outside world (course page, manifest, exit codes of the external    *)
(* processes, probe results, the interrupt signal) is chosen with \E at    *)
(* the step that reads it.  The per-lecture locals of download() and the   *)
(* log are kept for the lecture being processed: each iteration of the     *)
(* lecture loop starts them afresh, as the code re-creates them.           *)
(***************************************************************************)
EXTENDS Integers, Sequences, FiniteSets, TLC

(* ------------------------------ bounds --------------------------------- *)
\* course URLs on the command line
NumCourses == 2
\* lecture blocks on one course page
MaxLectures == 2
\* variant entries ("playlists") in one manifest
MaxVariants == 2
\* media entries in one manifest
MaxMedia == 2
\* characters of a file name given to _clean_filename, after its padding
MaxLen == 4
\* comma-separated parts of a --lecture-range expression
MaxParts == 2
\* pieces of the data-lec-id attribute of a lecture block
MaxTokens == 3

(* --------------------------- program constants ------------------------- *)
\* download.py:574  the ffmpeg exit status that triggers the yt-dlp retry
SentinelCode == 183
\* types.py:259  the longest file name _clean_filename returns
char_limit == 255
\* main.py:101  the default of the --quality option
DefaultQuality == 1080

\* an absent (None) string, url and resolution
None == "None"
NoUrl == <<>>
NoResolution == <<>>

\* Python values that are compared across types: an int, a str holding the
\* decimal text of a number, and None
PyInt(n) == [type |-> "int", val |-> n]
PyStr(n) == [type |-> "str", val |-> n]
PyNone == [type |-> "NoneType", val |-> 0]

\* exit statuses an external process is observed with: success, the
\* sentinel, and a generic failure
ExitCodes == {0, SentinelCode, 1}

(* ------------------------------ manifest ------------------------------- *)
\* RESOLUTION attribute of a variant, <<width, height>> for "WxH"
Resolutions == {<<854, 480>>, <<1280, 720>>}

\* stream_info of a variant: with or without a "resolution" key
StreamInfos == Resolutions \cup {NoResolution}

\* a media entry: TYPE and CHANNELS; m3u8 returns the CHANNELS attribute,
\* a quoted string of the manifest, as a str
MediaEntries ==
    {[type |-> "AUDIO", channels |-> PyStr(1)],
     [type |-> "AUDIO", channels |-> PyStr(2)],
     [type |-> "SUBTITLES", channels |-> PyNone]}

SeqsUpTo(S, n) == UNION {[1..k -> S] : k \in 0..n}

\* what m3u8_parse returns: the variants and the media entries, in manifest
\* order; the relative uri of the k-th entry is taken to be k
Manifests ==
    [playlists : SeqsUpTo(StreamInfos, MaxVariants),
     media : SeqsUpTo(MediaEntries, MaxMedia)]

\* A URL is the sequence of its parts: the directory (everything up to and
\* including the last "/" of the path), the file name, and the query string
\* when there is one.
\* types.py:190-192   the manifest URL built from the course page
RequestedUrl == <<"https://origin/v/", "master.m3u8">>

\* download.py:87-97   lecture_manifest_response.url after the service
\* redirected the request: to the manifest under another path prefix, bare
\* or with a query string
FinalUrls ==
    {<<"https://cdn/r/", "master.m3u8">>,
     <<"https://cdn/r/", "master.m3u8", "?token">>}

\* download.py:97   str.removesuffix("master.m3u8")
removesuffix(url) ==
    IF url[Len(url)] = "master.m3u8" THEN SubSeq(url, 1, Len(url) - 1) ELSE url

\* download.py:123   video_url = lecture_uri + playlist["uri"]
VideoUrl(lecture_uri, k) == lecture_uri \o <<"video", k>>

\* download.py:143   audio_link = lecture_uri + audio_tracks[0]["uri"]
AudioUrl(lecture_uri, k) == lecture_uri \o <<"audio", k>>

\* download.py:128   int(resolution.split("x")[1])
Height(resolution) == resolution[2]

\* types.py:294-309   Video()
NewVideo ==
    [video_height |-> 0, url_video |-> NoUrl,
     url_audio |-> NoUrl, audio_channels |-> PyNone]

ReplacesGE(height, video) == height >= video.video_height

\* download.py:127-129   only a strictly greater height replaces the selection
Replaces(height, video) == height > video.video_height

\* download.py:120-131   one iteration of the loop over the variants
SelectStep(video, lecture_uri, playlists, k) ==
    IF playlists[k] # NoResolution /\ Replaces(Height(playlists[k]), video)
    THEN [video EXCEPT !.video_height = Height(playlists[k]),
                       !.url_video = VideoUrl(lecture_uri, k)]
    ELSE video

RECURSIVE SelectFrom(_, _, _, _)
\* download.py:117-131   the loop over playlist_dict["playlists"]
SelectFrom(video, lecture_uri, playlists, k) ==
    IF k > Len(playlists) THEN video
    ELSE SelectFrom(SelectStep(video, lecture_uri, playlists, k),
                    lecture_uri, playlists, k + 1)

\* download.py:117-131   selected_video after the loop
SelectVideo(lecture_uri, playlists) ==
    SelectFrom(NewVideo, lecture_uri, playlists, 1)

\* main.py:92-101   values of the --quality option: its bounds and the
\* heights of the renditions in between
Qualities == {360, 1080} \cup {Height(r) : r \in Resolutions}

SelectVideoAtMost(quality_argument, lecture_uri, playlists) ==
    SelectVideo(lecture_uri,
                [k \in 1..Len(playlists) |->
                    IF playlists[k] # NoResolution
                          /\ Height(playlists[k]) > quality_argument
                    THEN NoResolution
                    ELSE playlists[k]])

\* download.py:26-34, 117-131   the selection download() makes when called
\* with the quality argument: the loop does not read it
SelectVideoFor(quality_argument, lecture_uri, playlists) ==
    SelectVideo(lecture_uri, playlists)

RECURSIVE AudioFrom(_, _)
\* download.py:135-139   positions of the media entries of type AUDIO
AudioFrom(media, k) ==
    IF k > Len(media) THEN <<>>
    ELSE IF media[k].type = "AUDIO"
         THEN <<k>> \o AudioFrom(media, k + 1)
         ELSE AudioFrom(media, k + 1)

\* download.py:135-139   audio_tracks
AudioTracks(media) == AudioFrom(media, 1)

SingleAudioAtLeastOne(audio_tracks) == Len(audio_tracks) >= 1

\* download.py:141   if len(audio_tracks) == 1
SingleAudio(audio_tracks) == Len(audio_tracks) = 1

(* ------------------------------- paths --------------------------------- *)
Extensions == {"mkv", "mp4"}

\* A path is the directory it lies in and the parts its name is made of.
\* A course c stands for its title, id and professor name, a lecture number
\* for its zero-padded number and its cleaned title.  Directory 0 is the
\* output root; directory c > 0 is the root's sub-directory
\* "{title} (#{id}) ~ {professor name}" of course c.
\* download.py:197-216   get_lecture_output_path:
\* output_directory / "{title} (#{id}) S01E{number} - {lecture title}.{ext}"
get_lecture_output_path(c, number, output_directory, file_extension) ==
    [kind |-> "lecture", dir |-> output_directory, course |-> c,
     number |-> number, ext |-> file_extension]

\* download.py:219-229   is_lecture_downloaded
is_lecture_downloaded(disk, c, number, output_directory, file_extension) ==
    get_lecture_output_path(c, number, output_directory, file_extension)
        \in disk

AlreadyDownloadedMkvOnly(disk, c, number, output_directory) ==
    is_lecture_downloaded(disk, c, number, output_directory, "mkv")

\* download.py:61-65   the skip test of the lecture loop
AlreadyDownloaded(disk, c, number, output_directory) ==
    \/ is_lecture_downloaded(disk, c, number, output_directory, "mkv")
    \/ is_lecture_downloaded(disk, c, number, output_directory, "mp4")

\* download.py:782-784   outtmpl: the n-th temporary file of a lecture, a
\* relative name, so a file of the working directory
TempFile(c, number, n, working_directory) ==
    [kind |-> "temp", dir |-> working_directory, course |-> c,
     number |-> number, ext |-> IF n = 1 THEN "00001" ELSE "00002"]

\* download.py:266-269   the guidebook file of a course
GuidebookFile(c, output_directory) ==
    [kind |-> "guidebook", dir |-> output_directory, course |-> c,
     number |-> 0, ext |-> "pdf"]

\* main.py:245, types.py:137-138   course_output_directory: the directory
\* output_directory / course.directory_path, and the number it goes by
CourseDirectory(c) ==
    [kind |-> "directory", dir |-> 0, course |-> c, number |-> 0,
     ext |-> None]

\* no file (None)
NoFile ==
    [kind |-> "none", dir |-> 0, course |-> 0, number |-> 0, ext |-> None]

(* --------------------------- ffmpeg command ---------------------------- *)
\* download.py:481, 681   the title of the audio track
AudioTitle(video) ==
    IF video.audio_channels = PyInt(2) THEN "English Stereo"
    ELSE "English Mono"

\* download.py:456-464   format_args
FormatArgs(fmt) ==
    IF fmt = "mkv" THEN "-reserve_index_space 50k" ELSE "-movflags +faststart"

\* download.py:467-484, 668-684   ffmpeg_args: the audio track's language and
\* title, the container options and the output path
FfmpegArgs(video, fmt, out) ==
    [language |-> "eng", title |-> AudioTitle(video),
     format_args |-> FormatArgs(fmt), output |-> out]

\* no command built
NoArgs ==
    [language |-> None, title |-> None, format_args |-> None,
     output |-> NoFile]

(* -------------------------- _clean_filename ---------------------------- *)
\* A string is the sequence of its characters.  The characters that
\* _clean_filename tells apart: a letter, a blank, the colon, a character of
\* the class [/\\%;*|"<>] (here "/"), and the "_" and "-" it writes.
Chars == {"a", " ", ":", "/"}

\* regular-expression classes \w and \S
IsWord(c) == c \in {"a", "_"}
IsNonSpace(c) == c # " "

\* types.py:250   the class [/\\%;*|"<>]
IsReserved(c) == c = "/"

\* the file names tried: up to MaxLen characters, bare or after a run of
\* letters that brings the longest of them to char_limit or just above it
PadLengths == {0, char_limit - MaxLen, char_limit - MaxLen + 1}
Filenames ==
    {[i \in 1..n |-> "a"] \o t : n \in PadLengths, t \in SeqsUpTo(Chars, MaxLen)}

\* str.replace(old, new) for one-character strings
Replace(str, old, new) ==
    [i \in 1..Len(str) |-> IF str[i] = old THEN new ELSE str[i]]

\* types.py:250   re.sub(r'[/\\%;*|"<>]', "_", filename)
SubReserved(str) ==
    [i \in 1..Len(str) |-> IF IsReserved(str[i]) THEN "_" ELSE str[i]]

\* types.py:255   the pattern (\w)\: (\S) matches at position i
MatchesAt(str, i) ==
    /\ i + 3 <= Len(str)
    /\ IsWord(str[i])
    /\ str[i + 1] = ":"
    /\ str[i + 2] = " "
    /\ IsNonSpace(str[i + 3])

\* the positions from i on at which the pattern matches
MatchesFrom(str, i) == {j \in i..Len(str) : MatchesAt(str, j)}

RECURSIVE SubColonFrom(_, _)
\* types.py:255   re.sub(r"(\w)\: (\S)", r"\1 - \2", ...): the matches are
\* found from left to right and do not overlap: the text up to the next
\* match is copied, the match is rewritten, and the search goes on after it
SubColonFrom(str, i) ==
    IF MatchesFrom(str, i) = {} THEN SubSeq(str, i, Len(str))
    ELSE LET m == CHOOSE j \in MatchesFrom(str, i) :
                      \A k \in MatchesFrom(str, i) : j <= k
         IN SubSeq(str, i, m - 1)
              \o <<str[m], " ", "-", " ", str[m + 3]>>
              \o SubColonFrom(str, m + 4)

SubColon(str) == SubColonFrom(str, 1)

\* types.py:251-257   what becomes of the colons
ReplaceColons(str, replace_colons_as_underscores) ==
    IF replace_colons_as_underscores
    THEN Replace(str, ":", "_")
    ELSE Replace(SubColon(str), ":", "-")

TruncateOneMore(str) ==
    SubSeq(str, 1, IF Len(str) > char_limit THEN char_limit + 1 ELSE Len(str))

\* types.py:265   filename_cleaned[:char_limit]
Truncate(str) ==
    SubSeq(str, 1, IF Len(str) > char_limit THEN char_limit ELSE Len(str))

\* types.py:250-265   _clean_filename, for flag settings that do not raise
clean_filename(str, replace_colons_as_underscores) ==
    Truncate(ReplaceColons(SubReserved(str), replace_colons_as_underscores))

(* ---------------------------- log records ------------------------------ *)
Rec(level, msg, number) == [level |-> level, msg |-> msg, lecture |-> number]

FallbackRecordsSilent(rc, number) == <<>>

\* download.py:575-576   the two records written before the retry
FallbackRecords(rc, number) ==
    <<Rec("error", "FFMPEG failed", number),
      Rec("info", "Trying with YT-DLP instead", number)>>

InterruptRecordNoLecture(number) == Rec("warning", "Stopped downloading", 0)

\* download.py:595-597, 838-840   the record written on KeyboardInterrupt
InterruptRecord(number) == Rec("warning", "Stopped downloading", number)

IsSentinelAnyFailure(rc) == rc # 0

\* download.py:574   if process.returncode == 183
IsSentinel(rc) == rc = SentinelCode

(* ------------------------------- state --------------------------------- *)
VARIABLES
    entry,          \* the function the run was started in
    courses,        \* main: the course URLs of the command line
    dry_run,        \* main: the --dry-run option
    pc,             \* the statement the run is at
    outcome,        \* how the run ended ("none" while it runs)
    signal,         \* the call a KeyboardInterrupt arrived in ("none": none)
    course_idx,     \* main: position of course_url in courses
    lectures,       \* Course.lectures (= lectures_to_download)
    guidebook_url,  \* Course.guidebook_url
    lec_idx,        \* download: position of lecture in lectures_to_download
    playlist_dict,  \* download: the parsed manifest
    selected_video, \* download: the Video handed to download_lecture
    use_ffmpeg,     \* download_lecture: strategy argument
    format,         \* download_lecture: container argument
    retries,        \* nested download_lecture calls made by the fallback
    returncodes,    \* process.returncode of each direct-merge ffmpeg run
    files_to_merge, \* MergePostProcessor._files_to_merge
    response_url,   \* download: lecture_manifest_response.url
    ffmpeg_args,    \* download_lecture: the ffmpeg command that was started
    streams,        \* merge_files: get_stream_info of the two files
    files,          \* the files and directories on disk
    cwd,            \* the process's working directory (0: where it started)
    output_directory,   \* the output_directory argument of download() and
                        \* download_lecture() (in main, before: the root)
    log,            \* records logged for the lecture being processed
    net,            \* network requests made for the lecture being processed
    quality,        \* main: the --quality option
    lecture_range,  \* main: the --lecture-range option
    catalog,        \* Course.lectures as Course.__init__ built them
    course_html,    \* Course.__init__: what the course page holds
    course,         \* Course.__init__: the attributes of the object built
    filename,       \* _clean_filename: the argument of the first call
    replace_colons_as_underscores,  \* _clean_filename: flag
    replace_colons_as_dashes,       \* _clean_filename: flag
    filename_cleaned    \* _clean_filename: the value of each call so far

vars ==
    <<entry, courses, dry_run, pc, outcome, signal, course_idx, lectures,
      guidebook_url, lec_idx, playlist_dict, selected_video, use_ffmpeg,
      format, retries, returncodes, files_to_merge, response_url,
      ffmpeg_args, streams, files, cwd, output_directory, log, net,
      quality, lecture_range, catalog, course_html, course, filename,
      replace_colons_as_underscores, replace_colons_as_dashes,
      filename_cleaned>>

\* the state of the functions that are also run on their own
unit_vars ==
    <<course_html, course, filename, replace_colons_as_underscores,
      replace_colons_as_dashes, filename_cleaned>>

NoManifest == [playlists |-> <<>>, media |-> <<>>]

\* the course the run is working on
Course == courses[course_idx]

\* the lecture the run is working on
Lecture == lectures[lec_idx]

\* download.py:446-448   output_file of download_lecture: always the mkv path
OutputFileOfFirst ==
    get_lecture_output_path(Course, 1, output_directory, "mkv")

OutputFileAtRoot ==
    get_lecture_output_path(Course, Lecture.number, 0, "mkv")

OutputFile ==
    get_lecture_output_path(Course, Lecture.number, output_directory, "mkv")

(* ----------------------------- course page ----------------------------- *)
\* what Course.__init__ finds on the page: the title block, the professor
\* link, the guidebook link, and per lecture block whether a manifest URL
\* can be built for it
Pages ==
    [title : BOOLEAN, professor : BOOLEAN, guidebook : {None, "pdf-url"},
     manifests : SeqsUpTo({None, "manifest-url"}, MaxLectures)]

\* types.py:67-134   the parse error Course.__init__ raises, "ok" if none
ParseResult(page) ==
    IF ~page.title THEN "CourseTitleNotFound"
    ELSE IF ~page.professor THEN "ProfessorNameNotFound"
    ELSE IF Len(page.manifests) = 0 THEN "LectureIdNotFound"
    ELSE "ok"

ParsingErrors ==
    {"CourseTitleNotFound", "ProfessorNameNotFound", "LectureIdNotFound"}

\* types.py:177-225   the Lecture objects built from the lecture blocks
BuildLectures(page) ==
    [k \in 1..Len(page.manifests) |->
        [number |-> k, manifest_url |-> page.manifests[k],
         lecture_uri |-> NoUrl]]

\* main.py:102-110   no --lecture-range option (None), or an empty one
NoRange == <<>>

\* main.py:199-202   a --lecture-range expression after split(","): a sequence
\* of parts, each part the sequence of its fields after split("-"), each
\* field what int() makes of it: a number, or a ValueError (ok = FALSE)
Fields ==
    [ok : {TRUE}, n : 0..(MaxLectures + 1)] \cup {[ok |-> FALSE, n |-> 0]}

\* the parts tried: every single field, every pair of fields, and one part
\* with two hyphens
RangeParts ==
    [1..1 -> Fields] \cup [1..2 -> Fields]
        \cup {[k \in 1..3 |-> [ok |-> TRUE, n |-> k]]}

RangeExprs == UNION {[1..k -> RangeParts] : k \in 1..MaxParts}

RangeNumbersExclusive(start, end) == start..(end - 1)

\* main.py:206   range(start, end + 1)
RangeNumbers(start, end) == start..end

\* main.py:201-215   what one part does: "ValueError" when it does not
\* unpack into start and end (raised outside the try), "Exit1" when a field
\* is not a number, otherwise the numbers it adds to the selection
PartError(part) ==
    IF Len(part) > 2 THEN "ValueError"
    ELSE IF \E k \in 1..Len(part) : ~part[k].ok THEN "Exit1"
    ELSE "none"

PartNumbers(part) ==
    IF Len(part) = 2 THEN RangeNumbers(part[1].n, part[2].n)
    ELSE {part[1].n}

RECURSIVE ParseFrom(_, _, _)
\* main.py:198-215   the loop over the parts: it ends at the first part
\* that raises
ParseFrom(parts, k, selected_lecture_numbers) ==
    IF k > Len(parts)
    THEN [error |-> "none", numbers |-> selected_lecture_numbers]
    ELSE IF PartError(parts[k]) # "none"
         THEN [error |-> PartError(parts[k]),
               numbers |-> selected_lecture_numbers]
         ELSE ParseFrom(parts, k + 1,
                        selected_lecture_numbers \cup PartNumbers(parts[k]))

\* main.py:195-228   lectures_to_download
LecturesToDownload(range, course_lectures) ==
    IF range = NoRange THEN course_lectures
    ELSE SelectSeq(course_lectures,
                   LAMBDA lecture :
                       lecture.number \in ParseFrom(range, 1, {}).numbers)

\* main.py:207-215, 221-225   how the selection ends the run, "none" if it
\* does not
RangeError(range, course_lectures) ==
    IF range = NoRange THEN "none"
    ELSE IF ParseFrom(range, 1, {}).error # "none"
         THEN ParseFrom(range, 1, {}).error
    ELSE IF LecturesToDownload(range, course_lectures) = <<>> THEN "Exit0"
    ELSE "none"

\* main.py:208, 214, 222   the record logged before the exit
RangeRecord(error) ==
    IF error = "Exit1" THEN <<Rec("error", "Invalid range", 0)>>
    ELSE IF error = "Exit0"
         THEN <<Rec("warning", "No lectures found for the specified range",
                    0)>>
    ELSE <<>>

(* ------------------------------ start ---------------------------------- *)
\* the course URLs given: all distinct, or the same URL repeated
CourseLists == {[k \in 1..NumCourses |-> k], [k \in 1..NumCourses |-> 1]}

\* the output directory before the run: empty, or holding the first lecture
\* of the first course in mp4 form
InitialDisks ==
    {{}, {CourseDirectory(1), get_lecture_output_path(1, 1, 1, "mp4")}}

\* main.py:64-183   a run started from the command line
InitMain ==
    /\ entry = "main"
    /\ courses \in CourseLists
    /\ dry_run \in BOOLEAN
    /\ pc = "course_loop"
    /\ course_idx = 0
    /\ lectures = <<>>
    /\ guidebook_url = None
    /\ lec_idx = 0
    /\ selected_video = NewVideo
    /\ use_ffmpeg = FALSE
    /\ format = "mkv"
    /\ files \in InitialDisks
    /\ output_directory = 0
    /\ quality = DefaultQuality
    /\ lecture_range = NoRange

\* download.py:410-419   a run started in download_lecture
InitLecture ==
    /\ entry = "download_lecture"
    /\ courses = <<1>>
    /\ dry_run = FALSE
    /\ pc = "dl_entry"
    /\ course_idx = 1
    /\ lectures = <<[number |-> 1, manifest_url |-> "manifest-url",
                     lecture_uri |-> removesuffix(RequestedUrl)]>>
    /\ guidebook_url = None
    /\ lec_idx = 1
    /\ \E ch \in {PyInt(1), PyInt(2)} :
          selected_video =
              [video_height |-> 720,
               url_video |-> VideoUrl(removesuffix(RequestedUrl), 1),
               url_audio |-> AudioUrl(removesuffix(RequestedUrl), 1),
               audio_channels |-> ch]
    /\ use_ffmpeg \in BOOLEAN
    /\ format \in Extensions
    /\ output_directory = 1
    /\ files \in {{}, {CourseDirectory(1),
                       get_lecture_output_path(1, 1, 1, "mkv")}}
    /\ quality = DefaultQuality
    /\ lecture_range = NoRange

\* nothing has run yet
Fresh ==
    /\ outcome = "none"
    /\ signal = "none"
    /\ playlist_dict = NoManifest
    /\ retries = 0
    /\ returncodes = <<>>
    /\ files_to_merge = <<>>
    /\ response_url = NoUrl
    /\ ffmpeg_args = NoArgs
    /\ streams = <<>>
    /\ cwd = 0
    /\ log = <<>>
    /\ net = {}
    /\ catalog = <<>>

\* no Course has been built
NoCourse == [title |-> <<>>, ids |-> <<>>, built |-> FALSE]

\* an element or attribute the page does not have
NoTag == [found |-> FALSE, text |-> <<>>]

NoHtml == [h1 |-> NoTag, professor |-> FALSE, lec_id |-> NoTag]

\* no call of Course.__init__ or _clean_filename on its own
NoUnit ==
    /\ course_html = NoHtml
    /\ course = NoCourse
    /\ filename = <<>>
    /\ replace_colons_as_underscores = FALSE
    /\ replace_colons_as_dashes = FALSE
    /\ filename_cleaned = <<>>

Init ==
    /\ InitMain \/ InitLecture
    /\ Fresh
    /\ NoUnit

(* ------------------------------ helpers -------------------------------- *)
\* an exception (or exit) that no handler of the repository catches: the
\* run ends with it
Raise(exc) ==
    /\ pc' = "terminated"
    /\ outcome' = exc

NextLectureSkipsOne(i) == i + 2

\* download.py:60, 69, 80, 104, 109, 158   continue: the for loop moves on to
\* the next lecture of the list
NextLecture(i) == i + 1

\* download.py:69, 80, 104, 109, 158   continue
Continue ==
    /\ pc' = "lec_check"
    /\ lec_idx' = NextLecture(lec_idx)
    /\ outcome' = outcome

(* ------------------------------- main ---------------------------------- *)
ContinuesNever(dry_run_option) == FALSE

\* main.py:233-243   if dry_run: ... continue
Continues(dry_run_option) == dry_run_option

\* main.py:186-259   one iteration of the loop over the course URLs, up to
\* the call of download(); the loop's end is the end of main
CourseLoop ==
    /\ pc = "course_loop"
    /\ UNCHANGED <<quality, lecture_range, unit_vars>>
    /\ entry = "main"
    /\ UNCHANGED <<entry, signal, courses, dry_run, lec_idx, playlist_dict,
                   selected_video, use_ffmpeg, format, retries, returncodes,
                   files_to_merge, response_url, ffmpeg_args, streams, net>>
    /\ IF course_idx = Len(courses)
       THEN /\ Raise("done")
            /\ UNCHANGED <<course_idx, lectures, catalog, guidebook_url,
                           files, cwd, output_directory, log>>
       ELSE \E page \in Pages :
            /\ course_idx' = course_idx + 1
            /\ IF ParseResult(page) # "ok"
               THEN /\ Raise(ParseResult(page))
                    /\ UNCHANGED <<lectures, catalog, guidebook_url, files,
                                   cwd, output_directory, log>>
               ELSE IF RangeError(lecture_range, BuildLectures(page)) # "none"
               THEN /\ Raise(RangeError(lecture_range, BuildLectures(page)))
                    /\ catalog' = BuildLectures(page)
                    /\ guidebook_url' = page.guidebook
                    /\ log' = log \o RangeRecord(
                          RangeError(lecture_range, BuildLectures(page)))
                    /\ UNCHANGED <<lectures, files, cwd, output_directory>>
               ELSE /\ lectures' = LecturesToDownload(lecture_range,
                                                      BuildLectures(page))
                    /\ catalog' = BuildLectures(page)
                    /\ guidebook_url' = page.guidebook
                    /\ outcome' = outcome
                    /\ log' = log
                    /\ IF Continues(dry_run)
                       THEN /\ pc' = "course_loop"
                            /\ UNCHANGED <<files, cwd, output_directory>>
                       ELSE /\ pc' = "guidebook"
                            /\ files' = files \cup
                                 {CourseDirectory(courses[course_idx + 1])}
                            /\ cwd' = courses[course_idx + 1]
                            /\ output_directory' = courses[course_idx + 1]

(* ----------------------------- download -------------------------------- *)
GuidebookResults ==
    {"ok", "Timeout", "ConnectionError", "RequestException", "Exception"}

UsableGuidebookUrlAlways(url) == TRUE

\* download.py:260, 309-324   the tests of guidebook_url: it is not empty,
\* starts with the docName address, ends with "/" and names a pdf.  The
\* guidebook_url of a course without guidebook link is str(None) (types.py:
\* 102-104), which fails the second test
UsableGuidebookUrl(url) == url \notin {"", None}

\* download.py:54-58, 232-371   download_guidebook, then the lecture loop
\* starts.  A failed download may have created the file before it failed
\* (download.py:334).
DownloadGuidebook ==
    /\ pc = "guidebook"
    /\ UNCHANGED <<quality, lecture_range, catalog, unit_vars>>
    /\ UNCHANGED <<entry, signal, courses, dry_run, course_idx, lectures,
                   guidebook_url, playlist_dict, selected_video, use_ffmpeg,
                   format, retries, returncodes, files_to_merge, response_url,
                   ffmpeg_args, streams, cwd, output_directory>>
    /\ IF GuidebookFile(Course, output_directory) \in files
          \/ ~UsableGuidebookUrl(guidebook_url)
       THEN /\ pc' = "lec_check"
            /\ lec_idx' = 1
            /\ log' = <<Rec("info", "Guidebook skipped", 0)>>
            /\ UNCHANGED <<outcome, files, net>>
       ELSE /\ net' = net \cup {"guidebook"}
            /\ \E r \in GuidebookResults :
               IF r = "ok"
               THEN /\ pc' = "lec_check"
                    /\ lec_idx' = 1
                    /\ files' = files \cup
                                  {GuidebookFile(Course, output_directory)}
                    /\ log' = <<Rec("debug",
                                    "Finished downloading the Guidebook", 0)>>
                    /\ outcome' = outcome
               ELSE /\ Raise("SystemExit")
                    /\ log' = <<Rec("error", r, 0)>>
                    /\ files' \in
                          {files,
                           files \cup
                              {GuidebookFile(Course, output_directory)}}
                    /\ UNCHANGED lec_idx

\* download.py:60-74   the head of the lecture loop: the end of the list
\* returns to main's loop; a lecture already on disk is skipped
LectureCheck ==
    /\ pc = "lec_check"
    /\ UNCHANGED <<quality, lecture_range, catalog, unit_vars>>
    /\ UNCHANGED <<entry, signal, courses, dry_run, course_idx, lectures,
                   guidebook_url, use_ffmpeg, format, retries, returncodes, files, cwd, output_directory,
                   outcome>>
    /\ playlist_dict' = NoManifest
    /\ selected_video' = NewVideo
    /\ files_to_merge' = <<>>
    /\ response_url' = NoUrl
    /\ ffmpeg_args' = NoArgs
    /\ streams' = <<>>
    /\ net' = {}
    /\ IF lec_idx > Len(lectures)
       THEN /\ pc' = "course_loop"
            /\ log' = <<>>
            /\ UNCHANGED lec_idx
       ELSE IF AlreadyDownloaded(files, Course, Lecture.number,
                                 output_directory)
            THEN /\ pc' = "lec_check"
                 /\ lec_idx' = NextLecture(lec_idx)
                 /\ log' = <<Rec("info", "already downloaded. Skipping",
                                 Lecture.number)>>
            ELSE /\ pc' = "manifest"
                 /\ log' = <<Rec("info", "Grabbing Lecture", Lecture.number)>>
                 /\ UNCHANGED lec_idx

FetchResults == {"ok", "RequestException", "Exception", "KeyboardInterrupt"}

MissingManifestNever(manifest_url) == FALSE

\* download.py:76   if not lecture.manifest_url: None and "" are both falsy
MissingManifest(manifest_url) == manifest_url \in {None, ""}

WithUriOfAll(lecture_list, i, lecture_uri) ==
    [k \in 1..Len(lecture_list) |->
        [lecture_list[k] EXCEPT !.lecture_uri = lecture_uri]]

\* download.py:99   lecture.lecture_uri = lecture_uri, lecture being the
\* i-th of the list
WithUri(lecture_list, i, lecture_uri) ==
    [lecture_list EXCEPT ![i].lecture_uri = lecture_uri]

\* download.py:76-109 (and main.py:260-261 for the interrupt)   the manifest
\* reference is tested, the manifest is fetched and parsed
FetchManifest ==
    /\ pc = "manifest"
    /\ UNCHANGED <<quality, lecture_range, catalog, unit_vars>>
    /\ UNCHANGED <<entry, courses, dry_run, course_idx, guidebook_url,
                   selected_video, use_ffmpeg, format, retries, returncodes,
                   files_to_merge, ffmpeg_args, streams, files, cwd, output_directory>>
    /\ IF MissingManifest(Lecture.manifest_url)
       THEN /\ Continue
            /\ log' = Append(log, Rec("error", "manifest URL is missing",
                                      Lecture.number))
            /\ UNCHANGED <<signal, lectures, playlist_dict, response_url,
                           net>>
       ELSE \E r \in FetchResults :
            /\ net' = net \cup {"manifest"}
            /\ IF r = "ok"
               THEN /\ \E m \in Manifests : playlist_dict' = m
                    /\ \E url \in FinalUrls :
                          /\ response_url' = url
                          /\ lectures' = WithUri(lectures, lec_idx,
                                                 removesuffix(url))
                    /\ pc' = "select"
                    /\ UNCHANGED <<signal, lec_idx, outcome, log>>
               ELSE IF r = "KeyboardInterrupt"
               THEN /\ Raise("SystemExit")
                    /\ signal' = "manifest"
                    /\ UNCHANGED <<lectures, playlist_dict, response_url,
                                   lec_idx, log>>
               ELSE /\ Continue
                    /\ log' = Append(log, Rec("error", r, Lecture.number))
                    /\ UNCHANGED <<signal, lectures, playlist_dict,
                                   response_url>>

\* download.py:418   the default of download_lecture's use_ffmpeg
UseFfmpegDefault == TRUE

\* download.py:172   use_ffmpeg=False in download()'s call of
\* download_lecture
UseFfmpegArgument == FALSE

\* download.py:141-145   the audio entry is copied into the Video
WithAudio(video, lecture_uri, media, audio_tracks) ==
    [video EXCEPT !.url_audio = AudioUrl(lecture_uri, audio_tracks[1]),
                  !.audio_channels = media[audio_tracks[1]].channels]

\* download.py:117-173   the renditions are selected and download_lecture is
\* called with use_ffmpeg=False and the default format
SelectRenditions ==
    /\ pc = "select"
    /\ UNCHANGED <<quality, lecture_range, catalog, unit_vars>>
    /\ UNCHANGED <<entry, signal, courses, dry_run, course_idx, lectures,
                   guidebook_url, playlist_dict, retries, returncodes,
                   files_to_merge, response_url, ffmpeg_args, streams, files,
                   cwd, output_directory, net>>
    /\ LET lecture_uri == Lecture.lecture_uri
           video == SelectVideoFor(quality, lecture_uri,
                                   playlist_dict.playlists)
           audio_tracks == AudioTracks(playlist_dict.media)
       IN IF SingleAudio(audio_tracks)
          THEN /\ selected_video' =
                    WithAudio(video, lecture_uri, playlist_dict.media,
                              audio_tracks)
               /\ IF video.url_video = NoUrl
                  THEN /\ Continue
                       /\ log' = Append(log, Rec("warning",
                                   "No video link found", Lecture.number))
                       /\ UNCHANGED <<use_ffmpeg, format>>
                  ELSE /\ pc' = "dl_entry"
                       /\ use_ffmpeg' = UseFfmpegArgument
                       /\ format' = "mkv"
                       /\ UNCHANGED <<lec_idx, outcome, log>>
          ELSE /\ selected_video' = video
               /\ Raise(IF Len(audio_tracks) >= 2
                        THEN "MoreThanOneAudioLinkError"
                        ELSE "NoAudioLinksError")
               /\ UNCHANGED <<lec_idx, use_ffmpeg, format, log>>

AudioErrors == {"MoreThanOneAudioLinkError", "NoAudioLinksError"}

(* -------------------------- download_lecture --------------------------- *)
\* download.py:446-466   the output path, its directory, and the strategy
\* chosen by use_ffmpeg
DownloadLectureEntry ==
    /\ pc = "dl_entry"
    /\ UNCHANGED <<quality, lecture_range, catalog, unit_vars>>
    /\ pc' = IF use_ffmpeg THEN "ffmpeg" ELSE "ytdlp"
    /\ files' = files \cup {CourseDirectory(output_directory)}
    /\ playlist_dict' = NoManifest
    /\ files_to_merge' = <<>>
    /\ ffmpeg_args' = NoArgs
    /\ streams' = <<>>
    /\ UNCHANGED <<entry, signal, courses, dry_run, outcome, course_idx,
                   lectures, guidebook_url, lec_idx, selected_video,
                   use_ffmpeg, format, retries, returncodes, response_url,
                   cwd, output_directory, log, net>>

\* what a failed or interrupted ffmpeg leaves at its output path: nothing
\* new, or a file it had begun to write
AfterFailedFfmpeg(disk, out) == {disk, disk \cup {out}}

\* download.py:467-593   the direct merge: ffmpeg reads both URLs and writes
\* the container; its exit status decides
FfmpegExit ==
    /\ pc = "ffmpeg"
    /\ UNCHANGED <<quality, lecture_range, catalog, unit_vars>>
    /\ net' = net \cup {"ffmpeg"}
    /\ ffmpeg_args' = FfmpegArgs(selected_video, format, OutputFile)
    /\ UNCHANGED <<entry, signal, courses, dry_run, course_idx, lectures,
                   guidebook_url, lec_idx, playlist_dict, selected_video,
                   files_to_merge, response_url, streams, cwd, output_directory>>
    /\ \E rc \in ExitCodes :
       /\ returncodes' = Append(returncodes, rc)
       /\ IF rc = 0
          THEN /\ pc' = "dl_return"
               /\ files' = files \cup {OutputFile}
               /\ UNCHANGED <<outcome, use_ffmpeg, format, retries, log>>
          ELSE /\ files' \in AfterFailedFfmpeg(files, OutputFile)
               /\ IF IsSentinel(rc)
                  THEN /\ log' = log \o FallbackRecords(rc, Lecture.number)
                       /\ pc' = "dl_entry"
                       /\ use_ffmpeg' = FALSE
                       /\ format' = "mkv"
                       /\ retries' = retries + 1
                       /\ outcome' = outcome
                  ELSE /\ log' = Append(log, Rec("error", "FFMPEG failed",
                                                 Lecture.number))
                       /\ Raise("RuntimeError")
                       /\ UNCHANGED <<use_ffmpeg, format, retries>>

\* download.py:594-598   KeyboardInterrupt while ffmpeg runs
FfmpegInterrupt ==
    /\ pc = "ffmpeg"
    /\ UNCHANGED <<quality, lecture_range, catalog, unit_vars>>
    /\ net' = net \cup {"ffmpeg"}
    /\ files' \in AfterFailedFfmpeg(files, OutputFile)
    /\ log' = Append(log, InterruptRecord(Lecture.number))
    /\ Raise("SystemExit")
    /\ signal' = "ffmpeg"
    /\ ffmpeg_args' = FfmpegArgs(selected_video, format, OutputFile)
    /\ UNCHANGED <<entry, courses, dry_run, course_idx, lectures,
                   guidebook_url, lec_idx, playlist_dict, selected_video,
                   use_ffmpeg, format, retries, returncodes, files_to_merge,
                   response_url, streams, cwd, output_directory>>

YtdlpResults == {"ok", "DownloadError", "Exception"}

\* download.py:813-836, 611-622   yt-dlp fetches the next of the two URLs
\* into a temporary file and hands it to MergePostProcessor.run
YtdlpDownload ==
    /\ pc = "ytdlp"
    /\ UNCHANGED <<quality, lecture_range, catalog, unit_vars>>
    /\ LET n == Len(files_to_merge) + 1
           temp == TempFile(Course, Lecture.number, n, cwd)
       IN /\ net' = net \cup {IF n = 1 THEN "video" ELSE "audio"}
          /\ \E r \in YtdlpResults :
             IF r = "ok"
             THEN /\ files' = files \cup {temp}
                  /\ files_to_merge' = Append(files_to_merge, temp)
                  /\ pc' = IF n = 2 THEN "merge" ELSE "ytdlp"
                  /\ UNCHANGED <<outcome, log>>
             ELSE /\ log' = Append(log, Rec("error", r, Lecture.number))
                  /\ Raise("RuntimeError")
                  /\ UNCHANGED <<files, files_to_merge>>
    /\ UNCHANGED <<entry, signal, courses, dry_run, course_idx, lectures,
                   guidebook_url, lec_idx, playlist_dict, selected_video,
                   use_ffmpeg, format, retries, returncodes, response_url,
                   ffmpeg_args, streams, cwd, output_directory>>

\* download.py:837-841   KeyboardInterrupt during the yt-dlp download or
\* the merge it runs
YtdlpInterrupt ==
    /\ pc \in {"ytdlp", "merge"}
    /\ UNCHANGED <<quality, lecture_range, catalog, unit_vars>>
    /\ log' = Append(log, InterruptRecord(Lecture.number))
    /\ Raise("Exit0")
    /\ signal' = "ytdlp"
    /\ UNCHANGED <<entry, courses, dry_run, course_idx, lectures,
                   guidebook_url, lec_idx, playlist_dict, selected_video,
                   use_ffmpeg, format, retries, returncodes, files_to_merge,
                   response_url, ffmpeg_args, streams, files, cwd, output_directory, net>>

\* download.py:400-407   what get_stream_info reports for a file; a failed
\* probe ({}) reads as neither stream
ProbeResults == [video : BOOLEAN, audio : BOOLEAN]

VideoFileWithAudio(s1, s2) ==
    IF s2.video THEN files_to_merge[2]
    ELSE IF s1.video THEN files_to_merge[1]
    ELSE NoFile

\* download.py:640-649   the last file probed as video only (s1, s2: the
\* probes of the first and the second file)
VideoFile(s1, s2) ==
    IF s2.video /\ ~s2.audio THEN files_to_merge[2]
    ELSE IF s1.video /\ ~s1.audio THEN files_to_merge[1]
    ELSE NoFile

\* download.py:640-649   the last file probed as audio only
AudioFile(s1, s2) ==
    IF s2.audio /\ ~s2.video THEN files_to_merge[2]
    ELSE IF s1.audio /\ ~s1.video THEN files_to_merge[1]
    ELSE NoFile

DownloadedRecord(number) == Rec("info", "downloaded", number)

UnlinkedAlways(rc, video_file, audio_file) == {video_file, audio_file}

\* download.py:689-705   the two files are unlinked inside the try, after
\* subprocess.run(check=True) returned: only when ffmpeg exited with 0
Unlinked(rc, video_file, audio_file) ==
    IF rc = 0 THEN {video_file, audio_file} ELSE {}

\* download.py:659-707   the merge proper: an existing output file is
\* removed, ffmpeg is run, and only after it succeeded the two files are
\* deleted
MergeRun(video_file, audio_file) ==
    /\ files_to_merge' = <<>>
    /\ ffmpeg_args' = FfmpegArgs(selected_video, format, OutputFile)
    /\ \E rc \in ExitCodes :
       IF rc = 0
       THEN /\ files' = (files \ Unlinked(rc, video_file, audio_file))
                            \cup {OutputFile}
            /\ log' = log \o
                 <<Rec("debug", "Merge successful", Lecture.number),
                   DownloadedRecord(Lecture.number)>>
       ELSE /\ files' \in
                 {disk \ Unlinked(rc, video_file, audio_file) :
                     disk \in AfterFailedFfmpeg(files \ {OutputFile},
                                                OutputFile)}
            /\ log' = log \o
                 <<Rec("error", "Error during merging", Lecture.number),
                   DownloadedRecord(Lecture.number)>>

\* download.py:624-707, 819-822   merge_files, run when the second file
\* arrived, and the return of ydl.download with its "downloaded" record
MergeFiles ==
    /\ pc = "merge"
    /\ UNCHANGED <<quality, lecture_range, catalog, unit_vars>>
    /\ pc' = "dl_return"
    /\ UNCHANGED <<entry, signal, courses, dry_run, outcome, course_idx, lectures,
                   guidebook_url, lec_idx, playlist_dict, selected_video,
                   use_ffmpeg, format, retries, returncodes, response_url, cwd, output_directory,
                   net>>
    /\ \E s1 \in ProbeResults, s2 \in ProbeResults :
       /\ streams' = <<s1, s2>>
       /\ IF VideoFile(s1, s2) = NoFile \/ AudioFile(s1, s2) = NoFile
          THEN /\ log' = log \o
                    <<Rec("error", "Could not identify video and audio files",
                          Lecture.number),
                      DownloadedRecord(Lecture.number)>>
               /\ UNCHANGED <<files, files_to_merge, ffmpeg_args>>
          ELSE MergeRun(VideoFile(s1, s2), AudioFile(s1, s2))

NestedCallNever(n) == FALSE

\* download.py:577-587   the download_lecture that returned is the one the
\* sentinel branch called (n: the nested calls made)
NestedCall(n) == n > 0

\* download.py:587   exit() after the nested call of the fallback returned
FallbackExit ==
    /\ pc = "dl_return"
    /\ UNCHANGED <<quality, lecture_range, catalog, unit_vars>>
    /\ NestedCall(retries)
    /\ Raise("SystemExit")
    /\ UNCHANGED <<entry, signal, courses, dry_run, course_idx, lectures,
                   guidebook_url, lec_idx, playlist_dict, selected_video,
                   use_ffmpeg, format, retries, returncodes, files_to_merge,
                   response_url, ffmpeg_args, streams, files, cwd, output_directory, log, net>>

\* download.py:165-173, 60   download_lecture returned to download(): its
\* locals (the command, the post-processor and its probes) are gone, and the
\* loop moves on to the next lecture
LectureDone ==
    /\ pc = "dl_return"
    /\ UNCHANGED <<quality, lecture_range, catalog, unit_vars>>
    /\ ~NestedCall(retries)
    /\ entry = "main"
    /\ Continue
    /\ files_to_merge' = <<>>
    /\ ffmpeg_args' = NoArgs
    /\ streams' = <<>>
    /\ UNCHANGED <<entry, signal, courses, dry_run, course_idx, lectures,
                   guidebook_url, playlist_dict, selected_video, use_ffmpeg,
                   format, retries, returncodes, response_url, files, cwd, output_directory,
                   log, net>>

\* download.py:410-419   download_lecture returned to the caller that
\* started the run in it
CallerReturn ==
    /\ pc = "dl_return"
    /\ UNCHANGED <<quality, lecture_range, catalog, unit_vars>>
    /\ ~NestedCall(retries)
    /\ entry = "download_lecture"
    /\ Raise("returned")
    /\ UNCHANGED <<entry, signal, courses, dry_run, course_idx, lectures,
                   guidebook_url, lec_idx, playlist_dict, selected_video,
                   use_ffmpeg, format, retries, returncodes, files_to_merge,
                   response_url, ffmpeg_args, streams, files, cwd, output_directory, log, net>>

Next ==
    \/ CourseLoop
    \/ DownloadGuidebook
    \/ LectureCheck
    \/ FetchManifest
    \/ SelectRenditions
    \/ DownloadLectureEntry
    \/ FfmpegExit
    \/ FfmpegInterrupt
    \/ YtdlpDownload
    \/ YtdlpInterrupt
    \/ MergeFiles
    \/ FallbackExit
    \/ LectureDone
    \/ CallerReturn

Spec == Init /\ [][Next]_vars

(* ----------------------- _clean_filename on its own -------------------- *)
\* the workflow's variables while a function is run on its own
Elsewhere ==
    /\ Fresh
    /\ courses = <<1>>
    /\ dry_run = FALSE
    /\ course_idx = 0
    /\ lectures = <<>>
    /\ guidebook_url = None
    /\ lec_idx = 0
    /\ selected_video = NewVideo
    /\ use_ffmpeg = FALSE
    /\ format = "mkv"
    /\ files = {}
    /\ output_directory = 0
    /\ quality = DefaultQuality
    /\ lecture_range = NoRange

\* types.py:227-232   a call of _clean_filename with any file name and flags
InitClean ==
    /\ entry = "_clean_filename"
    /\ pc = "clean"
    /\ Elsewhere
    /\ course_html = NoHtml
    /\ course = NoCourse
    /\ filename \in Filenames
    /\ replace_colons_as_underscores \in BOOLEAN
    /\ replace_colons_as_dashes \in BOOLEAN
    /\ filename_cleaned = <<>>

\* types.py:245-265   _clean_filename is called: first on filename, then on
\* the value it returned
CleanFilename ==
    /\ pc = "clean"
    /\ IF replace_colons_as_underscores /\ replace_colons_as_dashes
       THEN /\ Raise("ValueError")
            /\ UNCHANGED filename_cleaned
       ELSE /\ filename_cleaned' =
                 Append(filename_cleaned,
                        clean_filename(IF filename_cleaned = <<>>
                                       THEN filename
                                       ELSE filename_cleaned[Len(filename_cleaned)],
                                       replace_colons_as_underscores))
            /\ pc' = IF Len(filename_cleaned) = 1 THEN "returned" ELSE "clean"
            /\ outcome' = outcome
    /\ UNCHANGED <<entry, courses, dry_run, signal, course_idx, lectures,
                   guidebook_url, lec_idx, playlist_dict, selected_video,
                   use_ffmpeg, format, retries, returncodes, files_to_merge,
                   response_url, ffmpeg_args, streams, files, cwd, output_directory, log, net, quality,
                   lecture_range, catalog, course_html, course, filename,
                   replace_colons_as_underscores, replace_colons_as_dashes>>

NextClean == CleanFilename

SpecClean == InitClean /\ [][NextClean]_vars

(* ============================== claims ================================= *)
Last(seq) == seq[Len(seq)]

\* download() has just selected the renditions of the manifest it holds:
\* it is calling download_lecture, or it raised on the audio entries
Resolved ==
    /\ entry = "main"
    /\ \/ pc = "dl_entry"
       \/ pc = "terminated" /\ outcome \in AudioErrors

\* positions of the variants that carry a resolution
Carrying(playlists) ==
    {k \in 1..Len(playlists) : playlists[k] # NoResolution}

\* positions of the media entries of type AUDIO
AudioPositions(media) == {k \in 1..Len(media) : media[k].type = "AUDIO"}

\* C1: the video rendition selected by download() is a variant of maximal
\* height among the variants that carry a resolution, and among the variants
\* of that height it is the first in manifest order.
C1_MaxHeightFirstWins ==
    Resolved =>
        LET pl == playlist_dict.playlists
        IN IF Carrying(pl) = {}
           THEN selected_video.url_video = NoUrl
           ELSE \E k \in Carrying(pl) :
                  /\ selected_video.url_video =
                        VideoUrl(Lecture.lecture_uri, k)
                  /\ selected_video.video_height = Height(pl[k])
                  /\ \A j \in Carrying(pl) :
                        /\ Height(pl[j]) <= Height(pl[k])
                        /\ Height(pl[j]) = Height(pl[k]) => k <= j

\* C1 witness: two variants share the maximal height and download_lecture is
\* called with the first of them.
C1_Witness ==
    /\ pc = "dl_entry"
    /\ entry = "main"
    /\ Len(playlist_dict.playlists) = 2
    /\ playlist_dict.playlists[1] = <<1280, 720>>
    /\ playlist_dict.playlists[2] = <<1280, 720>>
    /\ selected_video.url_video = VideoUrl(Lecture.lecture_uri, 1)

\* C2: download_lecture is only invoked by download() for a manifest with
\* exactly one AUDIO entry, and then with that entry's URL and channel count;
\* with no AUDIO entry or with two or more the run reports the matching error
\* and download_lecture is not invoked.
C2_ExactlyOneAudio ==
    /\ (entry = "main" /\ pc = "dl_entry") =>
          \E k \in AudioPositions(playlist_dict.media) :
             /\ AudioPositions(playlist_dict.media) = {k}
             /\ selected_video.url_audio =
                   AudioUrl(Lecture.lecture_uri, k)
             /\ selected_video.audio_channels = playlist_dict.media[k].channels
    /\ outcome = "MoreThanOneAudioLinkError" =>
          Cardinality(AudioPositions(playlist_dict.media)) >= 2
    /\ outcome = "NoAudioLinksError" =>
          AudioPositions(playlist_dict.media) = {}
    /\ (entry = "main" /\ pc \notin {"select", "terminated"}) =>
          Cardinality(AudioPositions(playlist_dict.media)) <= 1
    /\ (entry = "main" /\ pc \in {"ytdlp", "merge", "dl_return"}) =>
          selected_video.url_audio # NoUrl

\* C2 witness: the manifest has a subtitles entry and then one two-channel
\* AUDIO entry, and download_lecture is called with the latter.
C2_Witness ==
    /\ pc = "dl_entry"
    /\ entry = "main"
    /\ Len(playlist_dict.media) = 2
    /\ playlist_dict.media[1].type = "SUBTITLES"
    /\ selected_video.url_audio = AudioUrl(Lecture.lecture_uri, 2)
    /\ selected_video.audio_channels = PyStr(2)

\* C3: a lecture whose manifest has no or several AUDIO entries is skipped
\* and the lectures after it (and the course URLs after its course) are
\* still processed: the audio error never ends the run.
C3_AudioErrorSkipsLecture ==
    ~ /\ pc = "terminated"
      /\ outcome \in AudioErrors
      /\ lec_idx < Len(lectures) \/ course_idx < Len(courses)

\* the final files of the lecture download() is working on
FinalFiles ==
    {get_lecture_output_path(Course, Lecture.number, output_directory, e) :
        e \in Extensions}

\* the lecture-loop states in which work is being done for the lecture
Working == {"manifest", "select", "dl_entry", "ytdlp", "merge"}

\* C4: download() does no work for a lecture whose mkv or mp4 file exists:
\* the run is never fetching, resolving or downloading a lecture whose file
\* is on disk, and a lecture skipped as already downloaded has caused no
\* network request and no error.
C4_IdempotentSkip ==
    /\ (entry = "main" /\ pc \in Working) => FinalFiles \cap files = {}
    /\ (log # <<>> /\ log[1].msg = "already downloaded. Skipping") =>
          /\ net = {}
          /\ outcome = "none"
          /\ Len(log) = 1
          /\ pc = "lec_check"

\* C4 witness: the course URL is given twice; the second pass skips the
\* first lecture, whose mkv file the first pass produced.
C4_Witness ==
    /\ courses = <<1, 1>>
    /\ course_idx = 2
    /\ log = <<Rec("info", "already downloaded. Skipping", 1)>>
    /\ lec_idx = 2
    /\ get_lecture_output_path(1, 1, 1, "mkv") \in files
    /\ get_lecture_output_path(1, 1, 1, "mp4") \notin files
    /\ net = {}

\* C5: a direct-merge ffmpeg that exits with the sentinel code is followed by
\* exactly one retry of the same lecture with the fragmented-fetch strategy:
\* there is never a second retry, the retry never runs ffmpeg directly again,
\* and the records announcing it are in the log before it starts.
C5_FallbackOnce ==
    /\ retries <= 1
    /\ Len(returncodes) <= 1
    /\ retries = 1 <=> (returncodes = <<SentinelCode>>)
    /\ retries = 1 =>
          /\ ~use_ffmpeg
          /\ format = "mkv"
          /\ pc \in {"dl_entry", "ytdlp", "merge", "dl_return", "terminated"}
          /\ Len(log) >= 2
          /\ log[1] = Rec("error", "FFMPEG failed", Lecture.number)
          /\ log[2] = Rec("info", "Trying with YT-DLP instead", Lecture.number)

\* C5 witness: the retry ran and produced the lecture's file.
C5_Witness ==
    /\ retries = 1
    /\ pc = "dl_return"
    /\ net = {"ffmpeg", "video", "audio"}
    /\ OutputFile \in files

\* C6: a direct-merge ffmpeg that exits with a non-zero status other than
\* the sentinel makes download_lecture raise RuntimeError: there is no
\* retry, nothing is fetched with the other strategy and no "downloaded"
\* record is written.
C6_OtherExitRaises ==
    (returncodes # <<>> /\ returncodes[1] \notin {0, SentinelCode}) =>
        /\ pc = "terminated"
        /\ outcome = "RuntimeError"
        /\ retries = 0
        /\ net = {"ffmpeg"}
        /\ \A i \in 1..Len(log) : log[i].msg # "downloaded"

\* C6 witness: ffmpeg exited with status 1 and the run ended in RuntimeError.
C6_Witness ==
    /\ returncodes = <<1>>
    /\ outcome = "RuntimeError"

\* C7: whenever download_lecture returns normally, the merged file exists at
\* the lecture's output path.
C7_ReturnImpliesFile ==
    pc = "dl_return" => OutputFile \in files

\* the states of the lecture loop, in the order a lecture passes them
Stage(p) ==
    CASE p = "lec_check" -> 1
      [] p = "manifest" -> 2
      [] p = "select" -> 3
      [] p = "dl_entry" -> 4
      [] p = "ytdlp" -> 5
      [] p = "merge" -> 6
      [] p = "dl_return" -> 7
      [] OTHER -> 0

\* C8: in a run of main the lectures are processed one at a time in list
\* order: within a lecture the existence check, the manifest resolution, the
\* download and the merge follow each other in that order with none left
\* out; the lecture loop starts at the first lecture and moves on by exactly
\* one lecture, and only from a completed one (skipped or returned); it is
\* left only past the last lecture or by a raised error.
C8_LectureOrder ==
    [][entry = "main" =>
        /\ (Stage(pc) > 0 /\ Stage(pc') > 0 /\ lec_idx' = lec_idx) =>
              Stage(pc') \in {Stage(pc), Stage(pc) + 1}
        /\ lec_idx' # lec_idx =>
              \/ pc = "guidebook" /\ pc' = "lec_check" /\ lec_idx' = 1
              \/ /\ pc \in {"lec_check", "manifest", "select", "dl_return"}
                 /\ lec_idx <= Len(lectures)
                 /\ pc' = "lec_check"
                 /\ lec_idx' = lec_idx + 1
                 /\ course_idx' = course_idx
        /\ (Stage(pc) > 0 /\ Stage(pc') = 0) =>
              \/ pc' = "terminated"
              \/ pc = "lec_check" /\ lec_idx > Len(lectures)
                                  /\ pc' = "course_loop"
      ]_vars

\* C8 witness: the second lecture is at its merge after the first lecture's
\* file was produced.
C8_Witness ==
    /\ entry = "main"
    /\ lec_idx = 2
    /\ pc = "merge"
    /\ get_lecture_output_path(Course, 1, output_directory, "mkv") \in files

\* C9: a catalog parse error ends only its own course: it never ends the run
\* while course URLs remain.
C9_ParseErrorNextCourse ==
    ~ /\ pc = "terminated"
      /\ outcome \in ParsingErrors
      /\ course_idx < Len(courses)

\* C10: once a KeyboardInterrupt has arrived during a lecture's download
\* (ffmpeg run, yt-dlp fetch or merge), the run is over: it has ended by
\* SystemExit or Exit(0) and the last record logged names the lecture that
\* was being downloaded.
C10_InterruptEndsRun ==
    signal \in {"ffmpeg", "ytdlp"} =>
        /\ pc = "terminated"
        /\ outcome = (IF signal = "ffmpeg" THEN "SystemExit" ELSE "Exit0")
        /\ log # <<>>
        /\ Last(log) = Rec("warning", "Stopped downloading", Lecture.number)

\* C10 witness: a run of main was interrupted in the download of a lecture
\* with a later lecture and a later course URL still to come.
C10_Witness ==
    /\ entry = "main"
    /\ signal = "ytdlp"
    /\ outcome = "Exit0"
    /\ lec_idx < Len(lectures)
    /\ course_idx < Len(courses)

\* the directory of a URL: everything up to and including the last "/" of
\* its path
DirectoryOf(url) == <<url[1]>>

\* C11: the video and the audio URL handed to download_lecture are the
\* manifest's relative URIs resolved against the directory of the manifest
\* response's final URL, whatever URL the service redirected to.
C11_ResolvedAgainstFinalDirectory ==
    (entry = "main" /\ pc = "dl_entry") =>
        /\ \E k \in 1..MaxVariants :
              selected_video.url_video =
                  DirectoryOf(response_url) \o <<"video", k>>
        /\ \E k \in 1..MaxMedia :
              selected_video.url_audio =
                  DirectoryOf(response_url) \o <<"audio", k>>

\* C12: a lecture without a manifest reference is skipped with a logged
\* error and without any network request; a lecture whose manifest fetch
\* fails is skipped with a logged error; in both cases no download strategy
\* is started, no file is touched and the loop moves on to the next lecture
\* of the same course.  Only an interrupt ends the run at this step.
C12_ManifestFailureSkips ==
    [][pc = "manifest" =>
        /\ Lecture.manifest_url \in {None, ""} =>
              /\ net' = {}
              /\ log' # log
        /\ log' # log =>
              /\ log' = Append(log, Last(log'))
              /\ Last(log').level = "error"
              /\ Last(log').lecture = Lecture.number
              /\ pc' = "lec_check"
              /\ lec_idx' = lec_idx + 1
              /\ course_idx' = course_idx
              /\ outcome' = "none"
              /\ net' \subseteq {"manifest"}
              /\ ffmpeg_args' = NoArgs
              /\ files' = files
        /\ pc' = "terminated" => signal' = "manifest"
      ]_vars

\* C12 witness: the first lecture's manifest fetch failed with a request
\* error and the loop is at the second lecture.
C12_Witness ==
    /\ pc = "lec_check"
    /\ lec_idx = 2
    /\ Len(lectures) = 2
    /\ net = {"manifest"}
    /\ Last(log) = Rec("error", "RequestException", 1)
    /\ outcome = "none"

\* C13: a manifest without a video rendition never ends the run with an
\* error: its lecture is skipped.
C13_NoVideoSkipsLecture ==
    ~ /\ pc = "terminated"
      /\ outcome \in AudioErrors
      /\ Carrying(playlist_dict.playlists) = {}

\* C14: cleaning a cleaned file name returns it unchanged, and no cleaned
\* file name is longer than 255 characters, for every file name and every
\* flag setting that does not raise.
C14_CleanIdempotent ==
    /\ \A i \in 1..Len(filename_cleaned) :
          Len(filename_cleaned[i]) <= char_limit
    /\ Len(filename_cleaned) = 2 => filename_cleaned[2] = filename_cleaned[1]

\* C14 witness: a file name of 255 characters that the rewriting of its
\* colon made longer was cleaned twice.
C14_Witness ==
    /\ Len(filename_cleaned) = 2
    /\ Len(filename) = char_limit
    /\ ~replace_colons_as_underscores
    /\ Len(SubColon(SubReserved(filename))) > char_limit
    /\ Len(filename_cleaned[1]) = char_limit

(* ------------------------ Course.__init__ on its own ------------------- *)
\* the pieces a data-lec-id attribute is made of: the "ZV" prefix, the
\* digits of the course, the "-L<digits>" suffix of the lecture, a blank
IdTokens == {"ZV", "1234", "-L01", " "}

\* types.py:115   data-lec-id values matching ".+": not empty
LecIds == SeqsUpTo(IdTokens, MaxTokens) \ {<<>>}

\* the text of the h1 element of the title block
Titles == SeqsUpTo(Chars, MaxLen)

\* types.py:68-73, 82-83, 115-121   the title block with its h1, the
\* professor link, and the data-lec-id of the first lecture block
CourseHtmls ==
    [h1 : {NoTag} \cup [found : {TRUE}, text : Titles],
     professor : BOOLEAN,
     lec_id : {NoTag} \cup [found : {TRUE}, text : LecIds]]

RECURSIVE lstrip(_)
\* str.strip(), the leading blanks
lstrip(str) ==
    IF str # <<>> /\ Head(str) = " " THEN lstrip(Tail(str)) ELSE str

RECURSIVE rstrip(_)
\* str.strip(), the trailing blanks
rstrip(str) ==
    IF str # <<>> /\ str[Len(str)] = " "
    THEN rstrip(SubSeq(str, 1, Len(str) - 1))
    ELSE str

\* str.strip()
strip(str) == rstrip(lstrip(str))

\* types.py:122-126   the course id taken from the first lecture's id
CourseIds(first_lecture_id_val) ==
    strip(SelectSeq(SelectSeq(first_lecture_id_val,
                              LAMBDA t : t # "-L01"),
                    LAMBDA t : t # "ZV"))

InitCourse ==
    /\ entry = "Course"
    /\ pc = "course_init"
    /\ Elsewhere
    /\ course_html \in CourseHtmls
    /\ course = NoCourse
    /\ filename = <<>>
    /\ replace_colons_as_underscores = FALSE
    /\ replace_colons_as_dashes = FALSE
    /\ filename_cleaned = <<>>

\* types.py:60-138   Course.__init__ up to directory_path
CourseInit ==
    /\ pc = "course_init"
    /\ IF ~course_html.h1.found
       THEN /\ Raise("CourseTitleNotFound")
            /\ UNCHANGED course
       ELSE IF ~course_html.professor
       THEN /\ Raise("ProfessorNameNotFound")
            /\ UNCHANGED course
       ELSE IF ~course_html.lec_id.found
       THEN /\ Raise("LectureIdNotFound")
            /\ UNCHANGED course
       ELSE /\ course' =
                 [title |-> clean_filename(strip(course_html.h1.text), FALSE),
                  ids |-> CourseIds(course_html.lec_id.text),
                  built |-> TRUE]
            /\ pc' = "returned"
            /\ outcome' = outcome
    /\ UNCHANGED <<entry, courses, dry_run, signal, course_idx, lectures,
                   guidebook_url, lec_idx, playlist_dict, selected_video,
                   use_ffmpeg, format, retries, returncodes, files_to_merge,
                   response_url, ffmpeg_args, streams, files, cwd,
                   output_directory, log, net, quality, lecture_range, catalog,
                   course_html, filename, replace_colons_as_underscores,
                   replace_colons_as_dashes, filename_cleaned>>

NextCourse == CourseInit

SpecCourse == InitCourse /\ [][NextCourse]_vars

(* ------------------------- lecture selection --------------------------- *)
\* main.py:64-183   a run started from the command line with one course URL,
\* with or without a --lecture-range expression
InitRange ==
    /\ entry = "main"
    /\ courses = <<1>>
    /\ dry_run \in BOOLEAN
    /\ pc = "course_loop"
    /\ course_idx = 0
    /\ lectures = <<>>
    /\ guidebook_url = None
    /\ lec_idx = 0
    /\ selected_video = NewVideo
    /\ use_ffmpeg = FALSE
    /\ format = "mkv"
    /\ files = {}
    /\ output_directory = 0
    /\ quality = DefaultQuality
    /\ lecture_range \in RangeExprs \cup {NoRange}
    /\ Fresh
    /\ NoUnit

\* main.py:186-259   the loop over the course URLs, up to the call of
\* download()
NextRange == CourseLoop

SpecRange == InitRange /\ [][NextRange]_vars

\* the numbers a well-formed expression names: its single numbers and the
\* numbers from the first to the last of each of its ranges
Named(range) ==
    {n \in 0..(MaxLectures + 1) :
        \E k \in 1..Len(range) :
           \/ Len(range[k]) = 1 /\ n = range[k][1].n
           \/ Len(range[k]) = 2 /\ range[k][1].n <= n /\ n <= range[k][2].n}

\* C17: the lectures handed to download() are the lectures of the catalog
\* whose number the expression names, each once and in catalog order; all
\* lectures of the catalog when there is no expression.
C17_SelectionIsUnion ==
    pc = "guidebook" =>
        /\ \A i \in 1..Len(lectures) :
              /\ lecture_range # NoRange
                    => lectures[i].number \in Named(lecture_range)
              /\ \E j \in 1..Len(catalog) : catalog[j] = lectures[i]
        /\ \A j \in 1..Len(catalog) :
              lecture_range = NoRange
                 \/ catalog[j].number \in Named(lecture_range)
              => Cardinality({i \in 1..Len(lectures) :
                                lectures[i] = catalog[j]}) = 1
        /\ \A i, k \in 1..Len(lectures) :
              i < k => lectures[i].number < lectures[k].number

\* C17 witness: an expression of a number and a range that overlap handed
\* over both lectures of a catalog of two.
C17_Witness ==
    /\ pc = "guidebook"
    /\ Len(lecture_range) = 2
    /\ Len(lecture_range[1]) = 1
    /\ Len(lecture_range[2]) = 2
    /\ lecture_range[1][1].n = 2
    /\ lecture_range[2][1].n = 1
    /\ lecture_range[2][2].n = 3
    /\ Len(catalog) = 2
    /\ lectures = catalog

\* C15: the command that builds a lecture tags its audio track with the
\* language eng and with the title "English Stereo" when the manifest's
\* audio entry declares 2 channels, "English Mono" otherwise.
C15_AudioTitleFromChannels ==
    ffmpeg_args # NoArgs =>
        /\ ffmpeg_args.language = "eng"
        /\ ffmpeg_args.title =
               IF selected_video.audio_channels.val = 2
               THEN "English Stereo" ELSE "English Mono"

\* C16: every lecture file a step writes is the file named by the course,
\* the lecture number and an extension of mkv or mp4, directly in the
\* course's directory under the output root, and it is a path the skip
\* test of the lecture loop checks.
C16_WrittenPathIsCheckedPath ==
    [][\A f \in files' \ files :
          f.kind = "lecture" =>
             /\ f.ext \in Extensions
             /\ f = get_lecture_output_path(Course, Lecture.number,
                                            CourseDirectory(Course).course,
                                            f.ext)
             /\ CourseDirectory(f.dir) \in files'
             /\ AlreadyDownloaded(files', Course, Lecture.number,
                                  output_directory)]_vars

\* C16 witness: a run of the whole program wrote the file of a lecture of
\* its second course, and the skip test finds it.
C16_Witness ==
    /\ entry = "main"
    /\ course_idx = 2
    /\ lec_idx \in 1..Len(lectures)
    /\ OutputFile \in files
    /\ OutputFile.dir = Course
    /\ AlreadyDownloaded(files, Course, Lecture.number, output_directory)

\* C18: a Course that was built has a title and an id that are not empty.
C18_BuiltCourseHasTitleAndId ==
    course.built => course.title # <<>> /\ course.ids # <<>>

\* C19: with the dry-run option no step of the program calls download():
\* nothing is fetched, no download command is started, no file or directory
\* is created and the working directory stays what it was.
C19_DryRunDownloadsNothing ==
    [][dry_run =>
          /\ pc' \in {"course_loop", "terminated"}
          /\ files' = files
          /\ cwd' = cwd
          /\ net' = {}
          /\ ffmpeg_args' = NoArgs
          /\ returncodes' = <<>>
          /\ lec_idx' = 0]_vars

\* C19 witness: a dry run went through both of its courses, each with
\* lectures to download, and is back at the head of the loop.
C19_Witness ==
    /\ dry_run
    /\ pc = "course_loop"
    /\ course_idx = 2
    /\ courses = <<1, 2>>
    /\ Len(lectures) = 2
    /\ lectures[1].manifest_url # None
    /\ files = {}
    /\ cwd = 0

\* C20: the merge of the two fetched files is started exactly when one of
\* them was probed as video only and the other as audio only; otherwise an
\* error is logged, no merge command is started, no file is created and
\* none is deleted.
C20_MergeOnlyWhenClassified ==
    [][pc = "merge" /\ Len(streams') = 2 =>
          LET videoOnly(s) == s.video /\ ~s.audio
              audioOnly(s) == s.audio /\ ~s.video
              s1 == streams'[1]
              s2 == streams'[2]
          IN  IF \/ videoOnly(s1) /\ audioOnly(s2)
                 \/ audioOnly(s1) /\ videoOnly(s2)
              THEN ffmpeg_args' # NoArgs
              ELSE /\ ffmpeg_args' = NoArgs
                   /\ files' = files
                   /\ \A k \in 1..2 : files_to_merge[k] \in files'
                   /\ \E k \in 1..Len(log') :
                         log'[k] = Rec("error",
                                       "Could not identify video and audio files",
                                       Lecture.number)]_vars

\* C20 witness: the first file fetched holds both a video and an audio
\* stream, the second only audio; the merge was given up and both files
\* are still there.
C20_Witness ==
    /\ pc = "dl_return"
    /\ Len(streams) = 2
    /\ streams[1].video /\ streams[1].audio
    /\ streams[2].audio /\ ~streams[2].video
    /\ ffmpeg_args = NoArgs
    /\ Len(files_to_merge) = 2
    /\ \A k \in 1..2 : files_to_merge[k] \in files
    /\ OutputFile \notin files

\* C21: a step of the merge removes a temporary file only when the merge
\* command succeeded: the file of the lecture is then there and the success
\* is logged; after a failed or abandoned merge both temporary files are
\* still on disk.
C21_TempsDeletedOnSuccessOnly ==
    [][pc = "merge" /\ Len(files_to_merge) = 2 =>
          \/ \A k \in 1..2 : files_to_merge[k] \in files'
          \/ /\ OutputFile \in files'
             /\ \E k \in (Len(log) + 1)..Len(log') :
                   log'[k] = Rec("debug", "Merge successful",
                                 Lecture.number)]_vars

\* C21 witness: the merge command of a lecture failed and both temporary
\* files are still on disk.
C21_Witness ==
    /\ pc = "dl_return"
    /\ ffmpeg_args # NoArgs
    /\ ~use_ffmpeg
    /\ \E k \in 1..Len(log) :
          log[k] = Rec("error", "Error during merging", Lecture.number)
    /\ \A n \in 1..2 : TempFile(Course, Lecture.number, n, cwd) \in files

\* C22: two lectures of a course with different numbers have different
\* final paths, and a step that processes a lecture creates or deletes no
\* lecture file other than that lecture's own.
C22_OwnPathOnly ==
    [][/\ \A i, j \in 1..Len(lectures) : \A e1, e2 \in Extensions :
             lectures[i].number # lectures[j].number =>
                get_lecture_output_path(Course, lectures[i].number,
                                        output_directory, e1)
                   # get_lecture_output_path(Course, lectures[j].number,
                                             output_directory, e2)
       /\ \A f \in (files' \ files) \cup (files \ files') :
             f.kind = "lecture" =>
                /\ lec_idx \in 1..Len(lectures)
                /\ f.number = Lecture.number
                /\ \A j \in 1..Len(lectures) : \A e \in Extensions :
                      j # lec_idx =>
                         f # get_lecture_output_path(Course,
                                                     lectures[j].number,
                                                     output_directory, e)]_vars

\* C22 witness: the second lecture of a course was written while the file
\* of the first is on disk.
C22_Witness ==
    /\ entry = "main"
    /\ pc = "dl_return"
    /\ lec_idx = 2
    /\ OutputFile \in files
    /\ get_lecture_output_path(Course, lectures[1].number, output_directory,
                               "mkv") \in files
    /\ OutputFile # get_lecture_output_path(Course, lectures[1].number,
                                            output_directory, "mkv")

\* C23: once the catalog is parsed, a step changes no lecture except in its
\* lecture_uri, and changes that only for the lecture being processed, in
\* the step that fetched and parsed its manifest, to the base of the
\* response's URL.
C23_OnlyLectureUriChanges ==
    [][pc # "course_loop" =>
          /\ Len(lectures') = Len(lectures)
          /\ \A i \in 1..Len(lectures) :
                /\ lectures'[i].number = lectures[i].number
                /\ lectures'[i].manifest_url = lectures[i].manifest_url
                /\ lectures'[i].lecture_uri # lectures[i].lecture_uri =>
                      /\ i = lec_idx
                      /\ pc = "manifest"
                      /\ pc' = "select"
                      /\ "manifest" \in net'
                      /\ response_url' \in FinalUrls
                      /\ lectures'[i].lecture_uri = removesuffix(response_url')]_vars

\* C23 witness: the second of two lectures got its lecture_uri, the first
\* one, whose manifest could not be fetched, has none.
C23_Witness ==
    /\ pc = "select"
    /\ lec_idx = 2
    /\ lectures[2].lecture_uri # NoUrl
    /\ lectures[1].lecture_uri = NoUrl
    /\ lectures[1].manifest_url # None

\* C24: the file a step of download_lecture writes for a lecture has the
\* extension of the requested format and was produced with that format's
\* container options.
C24_ExtensionAgreesWithFormat ==
    [][\A f \in files' \ files :
          f.kind = "lecture" =>
             /\ f.ext = format
             /\ ffmpeg_args'.format_args = FormatArgs(format)]_vars

\* C25: download_guidebook makes no request and goes on to the lectures
\* when the course has no guidebook URL or the guidebook file exists;
\* otherwise it makes the request, and when that fails it logs the error
\* and ends the run with SystemExit before any lecture.
C25_GuidebookFailureExits ==
    [][pc = "guidebook" =>
          IF guidebook_url = None
                \/ GuidebookFile(Course, output_directory) \in files
          THEN /\ pc' = "lec_check"
               /\ "guidebook" \notin net'
               /\ files' = files
               /\ outcome' = "none"
          ELSE /\ "guidebook" \in net'
               /\ \/ /\ pc' = "lec_check"
                     /\ GuidebookFile(Course, output_directory) \in files'
                  \/ /\ pc' = "terminated"
                     /\ outcome' = "SystemExit"
                     /\ lec_idx' = lec_idx
                     /\ log' # <<>>
                     /\ Last(log').level = "error"
                     /\ Last(log').msg \in GuidebookResults \ {"ok"}]_vars

\* C25 witness: the guidebook download of the second course timed out and
\* the run ended with SystemExit, none of that course's lectures processed.
C25_Witness ==
    /\ pc = "terminated"
    /\ outcome = "SystemExit"
    /\ course_idx = 2
    /\ lectures # <<>>
    /\ \A n \in 1..Len(lectures) :
          ~AlreadyDownloaded(files, Course, lectures[n].number,
                             output_directory)
    /\ "guidebook" \in net
    /\ log = <<Rec("error", "Timeout", 0)>>

\* C26: once the course is parsed, an expression with a part that is
\* neither a number nor a pair of numbers has ended the run with exit code
\* 1 and a logged error, and a well-formed expression that names no lecture
\* of the catalog has ended it with exit code 0; download() was called in
\* neither case.
C26_InvalidRangeExitsWithCode1 ==
    LET illFormed(part) ==
            Len(part) > 2 \/ \E k \in 1..Len(part) : ~part[k].ok
    IN  lecture_range # NoRange /\ catalog # <<>> =>
           IF \E k \in 1..Len(lecture_range) : illFormed(lecture_range[k])
           THEN /\ pc = "terminated"
                /\ outcome = "Exit1"
                /\ log # <<>>
                /\ Last(log).level = "error"
           ELSE (\A j \in 1..Len(catalog) :
                    catalog[j].number \notin Named(lecture_range))
                => pc = "terminated" /\ outcome = "Exit0"

\* C27: in a run started from main, download_lecture is only ever entered
\* with use_ffmpeg false: the direct merge is never started, no ffmpeg
\* exit status is seen and the fallback never runs.
C27_MainNeverUsesDirectMerge ==
    entry = "main" =>
        /\ ~use_ffmpeg
        /\ pc # "ffmpeg"
        /\ returncodes = <<>>
        /\ retries = 0
        /\ "ffmpeg" \notin net

\* C27 witness: a run started from main is in the fragmented fetch of a
\* lecture, its first file fetched.
C27_Witness ==
    /\ entry = "main"
    /\ pc = "ytdlp"
    /\ Len(files_to_merge) = 1
    /\ "video" \in net
    /\ ~use_ffmpeg

\* C28: when the retry started by the sentinel code has returned, the next
\* step ends the run with SystemExit, whatever the retry achieved: nothing
\* is written or logged, no other lecture is taken up, and a run that has
\* ended takes no further step.
C28_FallbackReturnExits ==
    [][/\ pc # "terminated"
       /\ pc = "dl_return" /\ retries > 0 =>
             /\ pc' = "terminated"
             /\ outcome' = "SystemExit"
             /\ lec_idx' = lec_idx
             /\ files' = files
             /\ log' = log
             /\ net' = net]_vars

\* C28 witness: ffmpeg exited with the sentinel code, the retry merged the
\* lecture's file, and the run ended with SystemExit.
C28_Witness ==
    /\ pc = "terminated"
    /\ outcome = "SystemExit"
    /\ signal = "none"
    /\ returncodes = <<SentinelCode>>
    /\ retries = 1
    /\ OutputFile \in files
    /\ Last(log) = DownloadedRecord(Lecture.number)
    /\ \E k \in 1..Len(log) :
          log[k] = Rec("debug", "Merge successful", Lecture.number)

\* C29: a step puts a file at a lecture's final path only when the command
\* that wrote it succeeded: the direct merge exited with 0, or the merge of
\* the two fetched files was logged as successful.
C29_FinalFileOnlyAfterSuccess ==
    [][\A f \in files' \ files :
          f.kind = "lecture" =>
             \/ /\ pc = "ffmpeg"
                /\ returncodes' = Append(returncodes, 0)
             \/ /\ pc = "merge"
                /\ \E k \in (Len(log) + 1)..Len(log') :
                      log'[k] = Rec("debug", "Merge successful",
                                    Lecture.number)]_vars

(* --------------------------- quality option --------------------------- *)
\* main.py:64-183   a run of main on one course, with any value of the
\* --quality option
InitQuality ==
    /\ entry = "main"
    /\ courses = <<1>>
    /\ dry_run = FALSE
    /\ pc = "course_loop"
    /\ course_idx = 0
    /\ lectures = <<>>
    /\ guidebook_url = None
    /\ lec_idx = 0
    /\ selected_video = NewVideo
    /\ use_ffmpeg = FALSE
    /\ format = "mkv"
    /\ files = {}
    /\ output_directory = 0
    /\ quality \in Qualities
    /\ lecture_range = NoRange
    /\ Fresh
    /\ NoUnit

\* the steps of a run started from main
NextQuality ==
    \/ CourseLoop
    \/ DownloadGuidebook
    \/ LectureCheck
    \/ FetchManifest
    \/ SelectRenditions
    \/ DownloadLectureEntry
    \/ YtdlpDownload
    \/ YtdlpInterrupt
    \/ MergeFiles
    \/ LectureDone

SpecQuality == InitQuality /\ [][NextQuality]_vars

====
